---- MODULE Spec2Model ----
(***************************************************************************)
(* Model of teaching_dashboardlit.py: a script that reads a spreadsheet of *)
(* student scores, unpivots it (melt), aggregates it per (TeachingMethod,  *)
(* Subject) and renders six tabs.  The script runs top to bottom; pc names *)
(* the next statement to execute.                                          *)
(*                                                                         *)
(* Numbers.  A float is modelled by an exact fraction [num, den] in lowest *)
(* terms; den = 0 is NaN (num = 0) or an infinity (num # 0).  The square   *)
(* roots the script takes (std, np.sqrt) are kept exact as [rad |-> f],    *)
(* standing for sqrt(f).  Floating-point rounding error is not modelled.   *)
(*                                                                         *)
(* Text.  A column name is the sequence of its words, so that              *)
(* "EnglishScore" is <<"English", "Score">> and str.replace acts on it.    *)
(***************************************************************************)
EXTENDS Integers, Sequences, FiniteSets, TLC

VARIABLES
  pc,                 \* the next statement of the script, "done" or "error"
  xlsx,               \* teaching_data.xlsx: whether it exists, its columns, its rows
  df,                 \* line 29: the frame read from Sheet1
  df_melted,          \* lines 31-34: the LongRecords, in row order
  descriptive_stats,  \* lines 36-47: the SummaryRows, index 1..n
  top_methods,        \* line 88
  overall_means,      \* line 98
  page,               \* what st.plotly_chart and st.dataframe were handed, in order
  error               \* the exception that ended the run, and the statement that raised it

vars == <<pc, xlsx, df, df_melted, descriptive_stats, top_methods,
          overall_means, page, error>>

----------------------------------------------------------------------------
(* Bounds of the model *)

MaxRows == 3

----------------------------------------------------------------------------
(* Float arithmetic *)

Abs(n) == IF n < 0 THEN -n ELSE n

RECURSIVE GCD(_, _)
GCD(a, b) == IF b = 0 THEN a ELSE GCD(b, a % b)

NaN == [num |-> 0, den |-> 0]

Frac(n, d) ==
  IF d = 0 THEN [num |-> IF n > 0 THEN 1 ELSE IF n < 0 THEN -1 ELSE 0, den |-> 0]
  ELSE LET s == IF d < 0 THEN -1 ELSE 1
           g == GCD(Abs(n), Abs(d))
       IN  [num |-> (s * n) \div g, den |-> (s * d) \div g]

Num(n) == [num |-> n, den |-> 1]

IsNaN(x) == x.den = 0 /\ x.num = 0

FAdd(x, y) == IF x.den = 0 \/ y.den = 0 THEN NaN
              ELSE Frac(x.num * y.den + y.num * x.den, x.den * y.den)

FSub(x, y) == IF x.den = 0 \/ y.den = 0 THEN NaN
              ELSE Frac(x.num * y.den - y.num * x.den, x.den * y.den)

FMul(x, y) == IF x.den = 0 \/ y.den = 0 THEN NaN
              ELSE Frac(x.num * y.num, x.den * y.den)

FDiv(x, y) == IF x.den = 0 \/ y.den = 0 THEN NaN
              ELSE Frac(x.num * y.den, x.den * y.num)

\* x <= y on floats: FALSE as soon as one side is NaN
FLe(x, y) == x.den # 0 /\ y.den # 0 /\ x.num * y.den <= y.num * x.den

FLt(x, y) == x.den # 0 /\ y.den # 0 /\ x.num * y.den < y.num * x.den

\* sqrt(x) / sqrt(y), exact
RootDiv(a, b) == [rad |-> FDiv(a.rad, b.rad)]

\* c * sqrt(x) for c >= 0, exact
RootScale(c, a) == [rad |-> FMul(FMul(c, c), a.rad)]

RECURSIVE ISqrt(_)
ISqrt(n) == IF n < 2 THEN n
            ELSE LET r == 2 * ISqrt(n \div 4)
                 IN  IF (r + 1) * (r + 1) <= n THEN r + 1 ELSE r

\* numpy's round to the nearest integer, halves to the even neighbour
RoundHalfEven(n, d) ==
  LET fl == n \div d
      twice == 2 * (n - fl * d)
  IN  IF twice < d THEN fl
      ELSE IF twice > d THEN fl + 1
      ELSE IF fl % 2 = 0 THEN fl ELSE fl + 1

\* Series.round(2) on one float
Round2(x) == IF x.den = 0 THEN x ELSE Frac(RoundHalfEven(x.num * 100, x.den), 100)

\* Series.round(2) on sqrt(rad): k / 100 for the integer k nearest to
\* 100 * sqrt(p / q), the largest k with (2k - 1)^2 <= 40000 * p / q
Round2Root(a) ==
  IF a.rad.den = 0 THEN a.rad
  ELSE LET p == a.rad.num
           q == a.rad.den
           s == ISqrt((40000 * p) \div q)
           up == (s + 1) \div 2
           tie == (2 * up - 1) * (2 * up - 1) * q = 40000 * p
       IN  Frac(IF tie /\ up % 2 = 1 THEN up - 1 ELSE up, 100)

----------------------------------------------------------------------------
(* Column names and their order *)

id_vars == << <<"StudentID">>, <<"TeachingMethod">> >>

value_vars == << <<"English", "Score">>, <<"Math", "Score">>,
                 <<"Chemistry", "Score">>, <<"Physics", "Score">>,
                 <<"Biology", "Score">> >>

Elems(s) == {s[i] : i \in DOMAIN s}

RequiredColumns == Elems(id_vars) \cup Elems(value_vars)

\* Series.str.replace('Score', ''): every occurrence of the word is removed
StrReplaceScore(name) == SelectSeq(name, LAMBDA w : w # "Score")

\* Python's string order on the labels that occur (groupby sorts its keys)
LabelOrder == <<"Biology", "Chemistry", "English", "Facilitator",
                "Lecture-Based Instruction", "Math", "Physics">>

Rank(w) == CHOOSE i \in DOMAIN LabelOrder : LabelOrder[i] = w

MethodLt(a, b) == Rank(a) < Rank(b)

SubjectLt(a, b) == Rank(Head(a)) < Rank(Head(b)) \/ (Head(a) = Head(b) /\ Len(a) < Len(b))

----------------------------------------------------------------------------
(* Input spreadsheets *)

Methods == {"Lecture-Based Instruction", "Facilitator"}

ScoreVals == {1, 2}

Cells == {NaN} \cup {Num(s) : s \in ScoreVals}

\* A score row: the English cell is blank or holds a score, the other four
\* subjects hold the score 1.
ScoreRows ==
  {[c \in Elems(value_vars) |-> IF c = <<"English", "Score">> THEN e ELSE Num(1)] :
     e \in Cells}

MakeRow(i, m, sc) ==
  [c \in RequiredColumns |->
     IF c = <<"StudentID">> THEN i
     ELSE IF c = <<"TeachingMethod">> THEN m
     ELSE sc[c]]

\* Sheets of n students, StudentID 1..n (one record per student)
Sheets(n) ==
  {[i \in 1..n |-> MakeRow(i, ms[i], scs[i])] :
     ms \in [1..n -> Methods], scs \in [1..n -> ScoreRows]}

DropColumns(rows, gone) ==
  [i \in DOMAIN rows |-> [c \in (DOMAIN rows[i]) \ gone |-> rows[i][c]]]

CompleteFiles ==
  {[exists |-> TRUE, columns |-> RequiredColumns, rows |-> r] :
     r \in UNION {Sheets(n) : n \in 1..MaxRows}}

\* Sheets that lack one or two of the required columns
DefectiveFiles ==
  {[exists |-> TRUE, columns |-> RequiredColumns \ gone, rows |-> DropColumns(r, gone)] :
     r \in Sheets(1),
     gone \in {g \in SUBSET RequiredColumns : Cardinality(g) \in {1, 2}}}

AbsentFile == [exists |-> FALSE, columns |-> {}, rows |-> <<>>]

NoFrame == [columns |-> {}, rows |-> <<>>]

NoError == [type |-> "none", names |-> {}, at |-> "none"]

----------------------------------------------------------------------------
(* Series reductions, as pandas computes them (skipna) *)

dropna(x) == SelectSeq(x, LAMBDA v : ~IsNaN(v))

RECURSIVE SeqSum(_)
SeqSum(x) == IF x = <<>> THEN Num(0) ELSE FAdd(Head(x), SeqSum(Tail(x)))

\* A count that takes the size of the group, missing values included
CountSize(x) == Len(x)

\* Series.count(): the number of non-missing values
count(x) == Len(dropna(x))

mean(x) == LET v == dropna(x) IN IF v = <<>> THEN NaN ELSE FDiv(SeqSum(v), Num(Len(v)))

RECURSIVE Insert(_, _)
Insert(v, s) == IF s = <<>> THEN <<v>>
                ELSE IF FLe(v, Head(s)) THEN <<v>> \o s
                ELSE <<Head(s)>> \o Insert(v, Tail(s))

RECURSIVE Sorted(_)
Sorted(x) == IF x = <<>> THEN <<>> ELSE Insert(Head(x), Sorted(Tail(x)))

\* Series.quantile(qn / qd): linear interpolation between order statistics
quantile(x, qn, qd) ==
  LET v == Sorted(dropna(x))
      n == Len(v)
  IN  IF n = 0 THEN NaN
      ELSE LET pos == (n - 1) * qn
               lo == pos \div qd
               rem == pos - lo * qd
           IN  IF rem = 0 THEN v[lo + 1]
               ELSE FAdd(v[lo + 1],
                         FMul(FSub(v[lo + 2], v[lo + 1]), Frac(rem, qd)))

median(x) == quantile(x, 1, 2)

SeqMax(x) == LET v == Sorted(dropna(x)) IN IF v = <<>> THEN NaN ELSE v[Len(v)]

SeqMin(x) == LET v == Sorted(dropna(x)) IN IF v = <<>> THEN NaN ELSE v[1]

\* Series.var(): sample variance, ddof = 1
var(x) ==
  LET v == dropna(x)
      n == Len(v)
      m == mean(x)
      sq == [i \in DOMAIN v |-> FMul(FSub(v[i], m), FSub(v[i], m))]
  IN  IF n <= 1 THEN NaN ELSE FDiv(SeqSum(sq), Num(n - 1))

\* Series.std(): sqrt of the sample variance
std(x) == [rad |-> var(x)]

\* Series.value_counts on the non-missing values
Occurrences(v, a) == Cardinality({i \in DOMAIN v : v[i] = a})

\* Series.unique() / the keys of a hash table: first occurrences, in order
RECURSIVE Unique(_)
Unique(s) == IF s = <<>> THEN <<>>
             ELSE <<Head(s)>> \o Unique(SelectSeq(Tail(s), LAMBDA a : a # Head(s)))

\* The most frequent non-missing values in the order the hash table holds them
MostFrequent(x) ==
  LET v == dropna(x)
      keys == Unique(v)
  IN  SelectSeq(keys, LAMBDA a : \A b \in Elems(keys) : Occurrences(v, b) <= Occurrences(v, a))

\* A mode() that leaves out the sort
ModeHashOrder(x) == MostFrequent(x)

\* Series.mode(): the most frequent non-missing values, sorted ascending
mode(x) == Sorted(MostFrequent(x))

\* lambda x: x.mode().iloc[0] if not x.mode().empty else None
ModeAgg(x) == IF mode(x) = <<>> THEN NaN ELSE mode(x)[1]

\* lambda x: x.max() - x.min()
RangeAgg(x) == FSub(SeqMax(x), SeqMin(x))

\* lambda x: x.quantile(0.75) - x.quantile(0.25)
IQRAgg(x) == FSub(quantile(x, 3, 4), quantile(x, 1, 4))

----------------------------------------------------------------------------
(* The statements of the script *)

Init ==
  /\ xlsx \in {AbsentFile} \cup CompleteFiles \cup DefectiveFiles
  /\ pc = "read_excel"
  /\ df = NoFrame
  /\ df_melted = <<>>
  /\ descriptive_stats = <<>>
  /\ top_methods = <<>>
  /\ overall_means = <<>>
  /\ page = <<>>
  /\ error = NoError

\* A read that turns an absent file into an empty frame
ReadExcelLenient ==
  /\ pc = "read_excel"
  /\ df' = IF xlsx.exists THEN [columns |-> xlsx.columns, rows |-> xlsx.rows] ELSE NoFrame
  /\ pc' = "melt"
  /\ UNCHANGED <<xlsx, df_melted, descriptive_stats, top_methods, overall_means, page, error>>

\* df = pd.read_excel("teaching_data.xlsx", sheet_name='Sheet1')
ReadExcel ==
  /\ pc = "read_excel"
  /\ IF xlsx.exists
       THEN /\ df' = [columns |-> xlsx.columns, rows |-> xlsx.rows]
            /\ pc' = "melt"
            /\ error' = error
       ELSE /\ df' = df
            /\ pc' = "error"
            /\ error' = [type |-> "FileNotFoundError", names |-> {}, at |-> "read_excel"]
  /\ UNCHANGED <<xlsx, df_melted, descriptive_stats, top_methods, overall_means, page>>

\* df.melt(id_vars=..., value_vars=..., var_name='Subject', value_name='Score'):
\* the value columns stacked one after the other, each over all the rows
MeltFrame(frame, idv, valv) ==
  LET n == Len(frame.rows)
  IN  [k \in 1..(n * Len(valv)) |->
         LET col == valv[((k - 1) \div n) + 1]
             rec == frame.rows[((k - 1) % n) + 1]
         IN  [StudentID |-> rec[idv[1]], TeachingMethod |-> rec[idv[2]],
              Subject |-> col, Score |-> rec[col]]]

\* The columns melt reports in its KeyError.  Older pandas checks id_vars and
\* then value_vars and reports the first group that lacks a column; newer
\* pandas reports every missing column at once.
MeltMissing(frame, idv, valv) ==
  LET noId == Elems(idv) \ frame.columns
      noVal == Elems(valv) \ frame.columns
  IN  IF noId \cup noVal = {} THEN {{}}
      ELSE {noId \cup noVal, IF noId # {} THEN noId ELSE noVal}

Melt ==
  /\ pc = "melt"
  /\ \E names \in MeltMissing(df, id_vars, value_vars) :
       IF names = {}
         THEN /\ df_melted' = MeltFrame(df, id_vars, value_vars)
              /\ pc' = "clean"
              /\ error' = error
         ELSE /\ df_melted' = df_melted
              /\ pc' = "error"
              /\ error' = [type |-> "KeyError", names |-> names, at |-> "melt"]
  /\ UNCHANGED <<xlsx, df, descriptive_stats, top_methods, overall_means, page>>

\* A clean-up whose result is not assigned back
CleanNamesKept(frame) == frame

\* df_melted['Subject'] = df_melted['Subject'].str.replace('Score', '')
CleanNames(frame) ==
  [k \in DOMAIN frame |-> [frame[k] EXCEPT !.Subject = StrReplaceScore(@)]]

Clean ==
  /\ pc = "clean"
  /\ df_melted' = CleanNames(df_melted)
  /\ pc' = "agg"
  /\ UNCHANGED <<xlsx, df, descriptive_stats, top_methods, overall_means, page, error>>

KeyLt(a, b) ==
  \/ MethodLt(a[1], b[1])
  \/ a[1] = b[1] /\ SubjectLt(a[2], b[2])

RECURSIVE SortKeys(_)
SortKeys(S) ==
  IF S = {} THEN <<>>
  ELSE LET least == CHOOSE a \in S : \A b \in S \ {a} : KeyLt(a, b)
       IN  <<least>> \o SortKeys(S \ {least})

\* A groupby that emits every combination of the key values (observed=False)
GroupKeysProduct(frame) ==
  SortKeys({<<m, frame[k].Subject>> : m \in Methods, k \in DOMAIN frame})

\* groupby(['TeachingMethod', 'Subject']): the keys that occur, sorted
GroupKeys(frame) ==
  SortKeys({<<frame[k].TeachingMethod, frame[k].Subject>> : k \in DOMAIN frame})

\* The Score series of one group, in row order
GroupScores(frame, key) ==
  LET rows == SelectSeq(frame, LAMBDA r : <<r.TeachingMethod, r.Subject>> = key)
  IN  [i \in DOMAIN rows |-> rows[i].Score]

\* .agg(Count=..., Mean=..., ...) on one group
AggRow(key, x) ==
  [TeachingMethod |-> key[1], Subject |-> key[2],
   Count |-> count(x), Mean |-> mean(x), Median |-> median(x),
   Mode |-> ModeAgg(x), StdDev |-> std(x), Variance |-> var(x),
   Range |-> RangeAgg(x), IQR |-> IQRAgg(x)]

\* df_melted.groupby([...]).agg(...).reset_index(): one row per key, index 1..n
GroupByAgg(frame) ==
  LET keys == GroupKeys(frame)
  IN  [i \in DOMAIN keys |-> AggRow(keys[i], GroupScores(frame, keys[i]))]

Aggregate ==
  /\ pc = "agg"
  /\ descriptive_stats' = GroupByAgg(df_melted)
  /\ pc' = "ci"
  /\ UNCHANGED <<xlsx, df, df_melted, top_methods, overall_means, page, error>>

\* A CI that divides by Count instead of its square root
CIOfNoSqrt(row) ==
  RootScale(Frac(196, 100), RootDiv(row.StdDev, [rad |-> Num(row.Count * row.Count)]))

\* 1.96 * (StdDev / np.sqrt(Count)) for one row
CIOf(row) == RootScale(Frac(196, 100), RootDiv(row.StdDev, [rad |-> Num(row.Count)]))

WithCI(row) ==
  [f \in DOMAIN row \cup {"CI"} |-> IF f = "CI" THEN CIOf(row) ELSE row[f]]

\* descriptive_stats['CI'] = ...
AddCI ==
  /\ pc = "ci"
  /\ descriptive_stats' = [i \in DOMAIN descriptive_stats |-> WithCI(descriptive_stats[i])]
  /\ pc' = "tab1"
  /\ UNCHANGED <<xlsx, df, df_melted, top_methods, overall_means, page, error>>

Column(frame, f) == [i \in DOMAIN frame |-> frame[i][f]]

\* descriptive_stats[descriptive_stats['Subject'] == subject]: a filtered copy
FilterSubject(stats, subject) == SelectSeq(stats, LAMBDA r : r.Subject = subject)

\* One go.Bar figure of tab 1: means with the CI column as error bars
CIFigure(stats, subject) ==
  LET sub_data == FilterSubject(stats, subject)
  IN  [call |-> "plotly_chart", title |-> subject,
       x |-> Column(sub_data, "TeachingMethod"),
       y |-> Column(sub_data, "Mean"),
       error_y |-> Column(sub_data, "CI")]

\* with tab1: one figure per subject of df_melted, in order of first occurrence
Tab1 ==
  /\ pc = "tab1"
  /\ LET subjects == Unique(Column(df_melted, "Subject"))
     IN  page' = page \o [i \in DOMAIN subjects |-> CIFigure(descriptive_stats, subjects[i])]
  /\ pc' = "tab2"
  /\ UNCHANGED <<xlsx, df, df_melted, descriptive_stats, top_methods, overall_means, error>>

RECURSIVE SortSubjects(_)
SortSubjects(S) ==
  IF S = {} THEN <<>>
  ELSE LET least == CHOOSE a \in S : \A b \in S \ {a} : SubjectLt(a, b)
       IN  <<least>> \o SortSubjects(S \ {least})

RECURSIVE SortMethods(_)
SortMethods(S) ==
  IF S = {} THEN <<>>
  ELSE LET least == CHOOSE a \in S : \A b \in S \ {a} : MethodLt(a, b)
       IN  <<least>> \o SortMethods(S \ {least})

\* Series.idxmax() on the Mean of one Subject group: the index of the first
\* row holding the largest non-missing Mean; 0 stands for the NaN label that
\* a group without any non-missing Mean gets
IdxMax(stats, subject) ==
  LET have == {i \in DOMAIN stats : stats[i].Subject = subject /\ ~IsNaN(stats[i].Mean)}
      best == {i \in have : \A j \in have : FLe(stats[j].Mean, stats[i].Mean)}
  IN  IF have = {} THEN 0 ELSE CHOOSE i \in best : \A j \in best : i <= j

\* descriptive_stats.groupby('Subject')['Mean'].idxmax(): one label per Subject,
\* the Subjects sorted
GroupIdxMax(stats) ==
  LET subjects == SortSubjects(Elems(Column(stats, "Subject")))
  IN  [i \in DOMAIN subjects |-> IdxMax(stats, subjects[i])]

\* with tab2.  A NaN label makes .loc raise KeyError; the newest pandas raises
\* ValueError from idxmax itself.
Tab2 ==
  /\ pc = "tab2"
  /\ LET labels == GroupIdxMax(descriptive_stats)
     IN  IF 0 \in Elems(labels)
           THEN /\ \E t \in {"KeyError", "ValueError"} :
                     error' = [type |-> t, names |-> {}, at |-> "tab2"]
                /\ pc' = "error"
                /\ UNCHANGED <<top_methods, page>>
           ELSE /\ top_methods' = [i \in DOMAIN labels |-> descriptive_stats[labels[i]]]
                /\ page' = Append(page, [call |-> "plotly_chart", title |-> "Best Method by Subject",
                                         data |-> top_methods'])
                /\ pc' = "tab3"
                /\ error' = error
  /\ UNCHANGED <<xlsx, df, df_melted, descriptive_stats, overall_means>>

\* The Score series of one TeachingMethod group, in row order
MethodScores(frame, m) ==
  Column(SelectSeq(frame, LAMBDA r : r.TeachingMethod = m), "Score")

\* An overall mean taken over the per-subject means of the summary table
GroupMeanOfMeans(frame) ==
  LET stats == GroupByAgg(frame)
      methods == SortMethods(Elems(Column(frame, "TeachingMethod")))
  IN  [i \in DOMAIN methods |->
         [TeachingMethod |-> methods[i],
          Score |-> mean(Column(SelectSeq(stats, LAMBDA r : r.TeachingMethod = methods[i]), "Mean"))]]

\* df_melted.groupby('TeachingMethod')['Score'].mean().reset_index()
GroupMean(frame) ==
  LET methods == SortMethods(Elems(Column(frame, "TeachingMethod")))
  IN  [i \in DOMAIN methods |->
         [TeachingMethod |-> methods[i], Score |-> mean(MethodScores(frame, methods[i]))]]

\* with tab3
Tab3 ==
  /\ pc = "tab3"
  /\ overall_means' = GroupMean(df_melted)
  /\ page' = Append(page, [call |-> "plotly_chart", title |-> "Average Score by Teaching Method",
                           data |-> overall_means'])
  /\ pc' = "tab4"
  /\ UNCHANGED <<xlsx, df, df_melted, descriptive_stats, top_methods, error>>

\* with tab4
Tab4 ==
  /\ pc = "tab4"
  /\ page' = Append(page, [call |-> "plotly_chart", title |-> "Method Comparison per Subject",
                           data |-> descriptive_stats])
  /\ pc' = "tab5"
  /\ UNCHANGED <<xlsx, df, df_melted, descriptive_stats, top_methods, overall_means, error>>

\* with tab5: the literal p-value, not computed from the data
Tab5 ==
  /\ pc = "tab5"
  /\ page' = Append(page, [call |-> "plotly_chart", title |-> "P-value", data |-> <<"2.2e-16">>])
  /\ pc' = "tab6"
  /\ UNCHANGED <<xlsx, df, df_melted, descriptive_stats, top_methods, overall_means, error>>

\* DataFrame.round(2) on one row: a new row, the float columns rounded
RoundRow(row) ==
  [f \in DOMAIN row |->
     IF f \in {"Mean", "Median", "Mode", "Variance", "Range", "IQR"} THEN Round2(row[f])
     ELSE IF f \in {"StdDev", "CI"} THEN Round2Root(row[f])
     ELSE row[f]]

RoundFrame(stats) == [i \in DOMAIN stats |-> RoundRow(stats[i])]

\* A tab 6 that rounds the table where it is
Tab6InPlace ==
  /\ pc = "tab6"
  /\ descriptive_stats' = RoundFrame(descriptive_stats)
  /\ page' = Append(page, [call |-> "dataframe", title |-> "Full Descriptive Statistics Table",
                           data |-> descriptive_stats'])
  /\ pc' = "done"
  /\ UNCHANGED <<xlsx, df, df_melted, top_methods, overall_means, error>>

\* with tab6: st.dataframe(descriptive_stats.round(2))
Tab6 ==
  /\ pc = "tab6"
  /\ page' = Append(page, [call |-> "dataframe", title |-> "Full Descriptive Statistics Table",
                           data |-> RoundFrame(descriptive_stats)])
  /\ pc' = "done"
  /\ UNCHANGED <<xlsx, df, df_melted, descriptive_stats, top_methods, overall_means, error>>

Next ==
  \/ ReadExcel \/ Melt \/ Clean \/ Aggregate \/ AddCI
  \/ Tab1 \/ Tab2 \/ Tab3 \/ Tab4 \/ Tab5 \/ Tab6

Spec == Init /\ [][Next]_vars

----------------------------------------------------------------------------
(* Properties *)

Steps == <<"read_excel", "melt", "clean", "agg", "ci", "tab1", "tab2", "tab3",
           "tab4", "tab5", "tab6", "done">>

StepNo(p) == CHOOSE i \in DOMAIN Steps : Steps[i] = p

\* The statement the script is at, or the one that raised
At == IF pc = "error" THEN error.at ELSE pc

\* Statement p has run to completion
Passed(p) == StepNo(At) > StepNo(p)

\* Statement p has run, to completion or to an exception
Ran(p) == Passed(p) \/ (pc = "error" /\ error.at = p)

TabSteps == {"tab1", "tab2", "tab3", "tab4", "tab5", "tab6"}

SubjectLabels == {<<"English">>, <<"Math">>, <<"Chemistry">>, <<"Physics">>, <<"Biology">>}

KeyOf(r) == <<r.TeachingMethod, r.Subject>>

\* The LongRecords (their positions in df_melted) of one partition
Partition(key) == {k \in DOMAIN df_melted : KeyOf(df_melted[k]) = key}

\* C1: once melt and the name clean-up have run, df_melted holds 5 LongRecords
\* per ScoreRecord: for every ScoreRecord and every subject column exactly one
\* LongRecord with that record's StudentID, its TeachingMethod, the column's
\* name without "Score" as Subject and the column's cell as Score.
C1_MeltFivePerRecord ==
  Passed("clean") =>
    /\ Len(df_melted) = 5 * Len(df.rows)
    /\ \A k \in DOMAIN df_melted : df_melted[k].Subject \in SubjectLabels
    /\ \A i \in DOMAIN df.rows : \A s \in SubjectLabels :
         LET rec == df.rows[i]
             hits == {k \in DOMAIN df_melted :
                        /\ df_melted[k].StudentID = rec[<<"StudentID">>]
                        /\ df_melted[k].Subject = s}
         IN  /\ Cardinality(hits) = 1
             /\ \A k \in hits :
                  /\ df_melted[k].TeachingMethod = rec[<<"TeachingMethod">>]
                  /\ df_melted[k].Score = rec[s \o <<"Score">>]

C1_Witness ==
  /\ Passed("clean")
  /\ Len(df.rows) >= 2
  /\ \E i, j \in DOMAIN df.rows :
       df.rows[i][<<"TeachingMethod">>] # df.rows[j][<<"TeachingMethod">>]

Freq(key, a) == Cardinality({k \in Partition(key) : df_melted[k].Score = a})

\* The non-missing scores of a partition
Present(key) == {df_melted[k].Score : k \in Partition(key)} \ {NaN}

\* C3: the Mode of every SummaryRow is a most frequent score of its partition,
\* the smallest one when several are most frequent (absent when the partition
\* holds no score), and every reordering of the partition's records gives the
\* same Mode.
C3_ModeSmallestMostFrequent ==
  Passed("agg") =>
    \A r \in Elems(descriptive_stats) :
      LET key == KeyOf(r)
          x == GroupScores(df_melted, key)
      IN  /\ IF Present(key) = {} THEN IsNaN(r.Mode)
             ELSE /\ r.Mode \in Present(key)
                  /\ \A b \in Present(key) :
                       /\ Freq(key, b) <= Freq(key, r.Mode)
                       /\ Freq(key, b) = Freq(key, r.Mode) => FLe(r.Mode, b)
          /\ \A f \in Permutations(DOMAIN x) :
               ModeAgg([i \in DOMAIN x |-> x[f[i]]]) = r.Mode

\* A partition where two scores tie for most frequent and the larger one
\* comes first in row order
C3_Witness ==
  /\ Passed("agg")
  /\ \E r \in Elems(descriptive_stats) :
       LET key == KeyOf(r)
           x == dropna(GroupScores(df_melted, key))
       IN  /\ Len(x) >= 2
           /\ x[1] # r.Mode
           /\ Freq(key, x[1]) = Freq(key, r.Mode)

\* A partition whose most frequent score is not its smallest score
C3_ModeAboveMinimum ==
  /\ Passed("agg")
  /\ \E r \in Elems(descriptive_stats) :
       \E b \in Present(KeyOf(r)) : FLt(b, r.Mode)

\* C8: with the spreadsheet absent, or a required column absent, the run ends
\* in an error before any SummaryRow is computed and before anything is
\* rendered: FileNotFoundError from read_excel, or a KeyError from melt that
\* names missing columns only, and the missing column when there is just one.
C8_FailsBeforeComputation ==
  LET missing == RequiredColumns \ xlsx.columns
  IN  /\ (~xlsx.exists /\ pc # "read_excel") =>
            /\ pc = "error"
            /\ error.type = "FileNotFoundError"
            /\ error.at = "read_excel"
      /\ (xlsx.exists /\ missing # {} /\ pc \notin {"read_excel", "melt"}) =>
            /\ pc = "error"
            /\ error.type = "KeyError"
            /\ error.at = "melt"
            /\ error.names # {}
            /\ error.names \subseteq missing
            /\ Cardinality(missing) = 1 => error.names = missing
      /\ (~xlsx.exists \/ missing # {}) =>
            /\ descriptive_stats = <<>>
            /\ df_melted = <<>>
            /\ page = <<>>

C8_Witness ==
  /\ pc = "error"
  /\ error.at = "melt"
  /\ Cardinality(RequiredColumns \ xlsx.columns) = 1
  /\ error.names = RequiredColumns \ xlsx.columns

\* A step taken inside a tab leaves both collections as they were
TabStepKeepsCollections ==
  pc \in TabSteps => (descriptive_stats' = descriptive_stats /\ df_melted' = df_melted)

\* C10: no step of a tab changes descriptive_stats or df_melted.
C10_TabsLeaveCollections == [][TabStepKeepsCollections]_vars

\* All six tabs have run and the table shown by tab 6 differs from
\* descriptive_stats (the rounding changed a copy)
C10_Witness ==
  /\ pc = "done"
  /\ Len(page) >= 6
  /\ page[Len(page)].call = "dataframe"
  /\ page[Len(page)].data # descriptive_stats
  /\ \E r \in Elems(descriptive_stats) : Round2(r.Mean) # r.Mean

\* The rows of descriptive_stats (their positions) of one Subject
RowsOf(subject) == {i \in DOMAIN descriptive_stats : descriptive_stats[i].Subject = subject}

\* C4: once tab 2 has run, top_methods holds for every Subject of
\* descriptive_stats exactly one row, a row of that Subject whose Mean is at
\* least every other (non-missing) Mean of the Subject, the first such row in
\* the order of descriptive_stats.
C4_BestMethodPerSubject ==
  Ran("tab2") =>
    \A s \in {r.Subject : r \in Elems(descriptive_stats)} :
      /\ Cardinality({i \in DOMAIN top_methods : top_methods[i].Subject = s}) = 1
      /\ \A i \in DOMAIN top_methods :
           top_methods[i].Subject = s =>
             \E b \in RowsOf(s) :
               /\ top_methods[i] = descriptive_stats[b]
               /\ \A j \in RowsOf(s) :
                    /\ ~IsNaN(descriptive_stats[j].Mean) =>
                         FLe(descriptive_stats[j].Mean, descriptive_stats[b].Mean)
                    /\ descriptive_stats[j].Mean = descriptive_stats[b].Mean => b <= j

\* Tab 2 completed on a sheet where two methods tie for the best Mean of a Subject
C4_TieReached ==
  /\ Passed("tab2")
  /\ \E i, j \in DOMAIN descriptive_stats :
       /\ i < j
       /\ descriptive_stats[i].Subject = descriptive_stats[j].Subject
       /\ descriptive_stats[i].Mean = descriptive_stats[j].Mean
       /\ descriptive_stats[i] \in Elems(top_methods)

\* Sum of the scores (integers in every sheet of the model) at positions S
RECURSIVE ScoreSum(_)
ScoreSum(S) ==
  IF S = {} THEN 0
  ELSE LET k == CHOOSE k \in S : TRUE
       IN  df_melted[k].Score.num + ScoreSum(S \ {k})

\* The LongRecords of a method that hold a score
Counted(m) == {k \in DOMAIN df_melted : df_melted[k].TeachingMethod = m /\ ~IsNaN(df_melted[k].Score)}

\* Sum of all the scores of a method over their number
Pooled(m) == Frac(ScoreSum(Counted(m)), Cardinality(Counted(m)))

\* The average of the per-subject Means of a method
AverageOfMeans(m) ==
  mean(Column(SelectSeq(descriptive_stats, LAMBDA r : r.TeachingMethod = m), "Mean"))

\* The subjects of a method do not all have the same number of counted scores
CountsDiffer(m) ==
  \E r1, r2 \in Elems(descriptive_stats) :
    r1.TeachingMethod = m /\ r2.TeachingMethod = m /\ r1.Count # r2.Count

OverallIsPooled ==
  /\ {r.TeachingMethod : r \in Elems(overall_means)} = {r.TeachingMethod : r \in Elems(df_melted)}
  /\ \A i, j \in DOMAIN overall_means :
       overall_means[i].TeachingMethod = overall_means[j].TeachingMethod => i = j
  /\ \A r \in Elems(overall_means) : r.Score = Pooled(r.TeachingMethod)

\* C5 as stated: overall_means holds for each method the pooled mean of its
\* scores, and that mean differs from the average of the per-subject Means
\* whenever the subjects of the method have different numbers of counted scores.
C5_DiffersWheneverCountsDiffer ==
  Passed("tab3") =>
    /\ OverallIsPooled
    /\ \A r \in Elems(overall_means) :
         CountsDiffer(r.TeachingMethod) => r.Score # AverageOfMeans(r.TeachingMethod)

\* C5 as amended: overall_means holds for each method of df_melted the pooled
\* mean of its scores (their sum over their number, read from df_melted); it
\* equals the average of the per-subject Means when every subject of the method
\* has the same number of counted scores, and only then need the two agree.
C5_PooledMean ==
  Passed("tab3") =>
    /\ OverallIsPooled
    /\ \A r \in Elems(overall_means) :
         ~CountsDiffer(r.TeachingMethod) => r.Score = AverageOfMeans(r.TeachingMethod)

\* A method whose subjects have different counts and whose pooled mean is not
\* the average of its per-subject Means
C5_Witness ==
  /\ Passed("tab3")
  /\ \E r \in Elems(overall_means) :
       /\ CountsDiffer(r.TeachingMethod)
       /\ ~IsNaN(r.Score)
       /\ r.Score # AverageOfMeans(r.TeachingMethod)

\* CI = 1.96 * StdDev / sqrt(Count), on the squares: CI^2 * Count = 1.96^2 * StdDev^2
CIFormula(r) ==
  /\ r.CI.rad.den # 0
  /\ FMul(r.CI.rad, Num(r.Count)) = FMul(Frac(196 * 196, 100 * 100), r.StdDev.rad)

\* The one score of a partition that holds one
SingleScore(r) == CHOOSE a \in Present(KeyOf(r)) : TRUE

\* C6 as stated: every row with Count <= 1 has StdDev and CI undefined and Count
\* and Mean defined (Mean the single score); every row with Count >= 2 has
\* CI = 1.96 * StdDev / sqrt(Count); the aggregation raises nothing.
C6_SmallPartitionMeanDefined ==
  /\ error.at \notin {"agg", "ci"}
  /\ Passed("ci") =>
       \A r \in Elems(descriptive_stats) :
         /\ r.Count <= 1 =>
              /\ IsNaN(r.StdDev.rad) /\ IsNaN(r.CI.rad)
              /\ r.Count \in Nat /\ ~IsNaN(r.Mean)
              /\ r.Count = 1 => r.Mean = SingleScore(r)
         /\ r.Count >= 2 => CIFormula(r)

\* C6 as amended: a row with Count = 1 has StdDev and CI undefined and Mean
\* equal to the single score; a row with Count = 0 has Mean, StdDev and CI all
\* undefined; a row with Count >= 2 has CI = 1.96 * StdDev / sqrt(Count); the
\* aggregation raises nothing.
C6_SmallPartitionUndefined ==
  /\ error.at \notin {"agg", "ci"}
  /\ Passed("ci") =>
       \A r \in Elems(descriptive_stats) :
         /\ r.Count \in Nat
         /\ r.Count = 1 =>
              /\ IsNaN(r.StdDev.rad) /\ IsNaN(r.CI.rad)
              /\ r.Mean = SingleScore(r)
         /\ r.Count = 0 =>
              /\ IsNaN(r.StdDev.rad) /\ IsNaN(r.CI.rad)
              /\ IsNaN(r.Mean)
         /\ r.Count >= 2 => CIFormula(r)

\* Rows with Count 0, Count 1 and Count >= 2 (the last with a CI above 0)
C6_Witness ==
  /\ Passed("ci")
  /\ \E r \in Elems(descriptive_stats) : r.Count = 0
  /\ \E r \in Elems(descriptive_stats) : r.Count = 1
  /\ \E r \in Elems(descriptive_stats) : r.Count >= 2 /\ r.CI.rad.num > 0

NotAvailable == [text |-> "N/A"]

\* C7: every undefined CI handed to an error bar of tab 1, and every undefined
\* StdDev or CI of the table handed to tab 6, is the text "N/A".
C7_UndefinedShownAsNA ==
  \A p \in DOMAIN page :
    /\ "error_y" \in DOMAIN page[p] =>
         \A j \in DOMAIN page[p].error_y :
           LET r == FilterSubject(descriptive_stats, page[p].title)[j]
           IN  IsNaN(r.CI.rad) => page[p].error_y[j] = NotAvailable
    /\ page[p].call = "dataframe" =>
         \A j \in DOMAIN page[p].data :
           /\ IsNaN(descriptive_stats[j].CI.rad) => page[p].data[j].CI = NotAvailable
           /\ IsNaN(descriptive_stats[j].StdDev.rad) => page[p].data[j].StdDev = NotAvailable

\* C9 as stated: every row of descriptive_stats has Count >= 1, Count being the
\* number of LongRecords of its partition.
C9_CountIsPartitionSize ==
  Passed("agg") =>
    \A r \in Elems(descriptive_stats) :
      /\ r.Count >= 1
      /\ r.Count = Cardinality(Partition(KeyOf(r)))

\* C9 as amended: every row of descriptive_stats has a partition of at least
\* one LongRecord, and its Count is the number of LongRecords of the partition
\* whose Score is not missing (0 when all are missing).
C9_CountIsNonMissing ==
  Passed("agg") =>
    \A r \in Elems(descriptive_stats) :
      /\ Cardinality(Partition(KeyOf(r))) >= 1
      /\ r.Count = Cardinality({k \in Partition(KeyOf(r)) : ~IsNaN(df_melted[k].Score)})

\* A row with Count 0 and a row that counts some but not all of its records
C9_Witness ==
  /\ Passed("agg")
  /\ \E r \in Elems(descriptive_stats) : r.Count = 0
  /\ \E r \in Elems(descriptive_stats) :
       r.Count >= 1 /\ r.Count < Cardinality(Partition(KeyOf(r)))

====
